---- MODULE Spec2Model ----
(***************************************************************************)
(* Model of the Trustless Staking Token Instrument contract                *)
(* (src/contracts/tezos/tst.py, SmartPy).  Amounts are in mutez, token     *)
(* balances and shares are nats.  Every entry point is an operator from    *)
(* the contract's state, the time and the call's inputs to a result; a     *)
(* call that fails reverts all its effects, including the transfer of      *)
(* sp.amount to the contract, so its result carries the state unchanged.   *)
(***************************************************************************)
EXTENDS Integers, Sequences, FiniteSets, TLC

\* ------------------------------------------------------------------ bounds
MaxOps == 4          \* number of successful entry-point calls explored
MaxNow == 1         \* seconds explored after start + duration
MaxShareOps == 5     \* number of successful ShareToken calls explored

\* ------------------------------------------------- constructor parameters
periods  == 2
interval == 2
duration == periods * interval
start    == 1000

\* --------------------------------------------------------------- constants
TEZ           == 1000000      \* sp.tez(1) in mutez
DELEGATE_THRESHOLD == 650000

Guarantors == {"alice", "bob"}
Depositors == {"david", "elanore"}
Accounts   == Guarantors \cup Depositors
Bakers     == {"francois"}
NoDelegate == "none"

\* schedules the contract is constructed with (rates in mutez per token)
SteepSchedule == [p \in 0..periods |-> TEZ - (periods - p) * 200000]
rates == <<952380, 957557, 962763, 967996, 973258, 978548, 983868, 989216,
           994593, 1000000, 1000000>>
TestSchedule  == [p \in 0..periods |->
                    IF p = periods THEN rates[Len(rates)] ELSE rates[1 + 5 * p]]
Schedules == {SteepSchedule, TestSchedule}

\* values attached to / passed to the entry points
RewardAmounts     == {1500000}
DepositAmounts    == {0, 1200000, 5000000, 20000000}
CollateralAmounts == {0, 2000000}
WithdrawAmounts   == {0, 1, 1000000}
RedeemAmounts     == {1, 2}
TokenAmounts      == {0, 1, 2}
TerminateLists    == {<<>>, <<"david">>, <<"david", "elanore">>, <<"david", "david">>}

VARIABLES schedule, now, balance, freeCollateral, balances, collateral,
          guarantors, delegate,
          depositedCollateral, rewards, released,
          last, nops

\* the storage of the ShareToken contract (sharetoken.py): self.data.deployer,
\* self.data.parent and self.data.balances; bootstraps counts the successful
\* bootstrap calls, shareLast records the last successful call and its
\* sp.source, shareOps counts the successful calls
VARIABLES shareDeployer, shareParent, shareBalances,
          bootstraps, shareLast, shareOps

ghost == <<depositedCollateral, rewards, released>>
instrumentVars ==
    <<schedule, now, balance, freeCollateral, balances, collateral,
      guarantors, delegate,
      depositedCollateral, rewards, released, last, nops>>
shareVars ==
    <<shareDeployer, shareParent, shareBalances, bootstraps, shareLast, shareOps>>
vars  == <<schedule, now, balance, freeCollateral, balances, collateral,
           guarantors, delegate,
           depositedCollateral, rewards, released, last, nops,
           shareDeployer, shareParent, shareBalances, bootstraps, shareLast,
           shareOps>>

\* the contract's storage (self.data), its tez balance and its delegate
Storage ==
    [schedule |-> schedule, freeCollateral |-> freeCollateral,
     balances |-> balances, collateral |-> collateral,
     guarantors |-> guarantors, balance |-> balance, delegate |-> delegate]

\* ----------------------------------------------------------------- helpers
\* floor(a * b / c) and the remainder, on unbounded nats (Michelson nat and
\* mutez products do not wrap); computed digit by digit of b in base 8 so
\* that no intermediate value exceeds 8 * (a + c).
RECURSIVE MulDivQR(_, _, _)
MulDivQR(a, b, c) ==
    IF b = 0 THEN <<0, 0>>
    ELSE LET h  == MulDivQR(a, b \div 8, c)
             r3 == 8 * h[2] + (b % 8) * a
         IN  <<8 * h[1] + (r3 \div c), r3 % c>>

MulDiv(a, b, c) == MulDivQR(a, b, c)[1]

\* sp.split_tokens(m, q, t) = m * q / t, in mutez
split_tokens(m, q, t) == MulDiv(m, q, t)

\* big_map / map operations
EmptyMap == [x \in {} |-> 0]
MapSet(f, k, v) == [x \in DOMAIN f \cup {k} |-> IF x = k THEN v ELSE f[x]]
MapDel(f, k) == [x \in DOMAIN f \ {k} |-> f[x]]
MapGet(f, k, d) == IF k \in DOMAIN f THEN f[k] ELSE d

RECURSIVE SumOver(_, _)
SumOver(f, S) ==
    IF S = {} THEN 0
    ELSE LET x == CHOOSE y \in S : TRUE IN f[x] + SumOver(f, S \ {x})

\* total of all token balances held in a balances big_map
TotalTokens(bals) == SumOver([a \in DOMAIN bals |-> bals[a].balance], DOMAIN bals)

RECURSIVE SeqContains(_, _)
SeqContains(s, x) ==
    IF s = <<>> THEN FALSE ELSE (Head(s) = x) \/ SeqContains(Tail(s), x)

\* self.verifyGuarantor(account): linear scan of the guarantors list
verifyGuarantor(st, account) == SeqContains(st.guarantors, account)

\* the period taken to be the whole intervals left until maturity
getPeriod_timeToMaturity(t) ==
    IF t > start + duration THEN [ok |-> TRUE, y |-> periods]
    ELSE IF t - start < 0 THEN [ok |-> FALSE, y |-> 0]
    ELSE IF duration - (t - start) < 0 THEN [ok |-> FALSE, y |-> 0]
    ELSE [ok |-> TRUE, y |-> (duration - (t - start)) \div interval]

\* self.getPeriod() at time t: [ok |-> FALSE] when an sp.as_nat fails,
\* else the int y
getPeriod(t) ==
    IF t > start + duration THEN [ok |-> TRUE, y |-> periods]
    ELSE IF t - start < 0 THEN [ok |-> FALSE, y |-> 0]
    ELSE IF duration - (t - start) < 0 THEN [ok |-> FALSE, y |-> 0]
    ELSE [ok |-> TRUE,
          y  |-> periods - ((duration - (t - start)) \div interval) - 1]

NoSent == [a \in Accounts |-> 0]

\* the mutable fields of self.data
Data(st) ==
    [freeCollateral |-> st.freeCollateral, balances |-> st.balances,
     collateral |-> st.collateral, guarantors |-> st.guarantors]

\* result of a failed call: every effect is reverted
Failed(st) ==
    [ok |-> FALSE, st |-> st, sent |-> NoSent, minted |-> 0, released |-> 0,
     seen |-> <<>>]

\* result of a successful call: the new state, the tez sent by sp.send, the
\* tokens credited to the sender, the collateral released and, for every
\* sp.send in program order, its recipient and self.data as it stands when
\* the transfer is issued
Done(st, sent, minted, rel) ==
    [ok |-> TRUE, st |-> st, sent |-> sent, minted |-> minted, released |-> rel,
     seen |-> <<>>]

\* sp.send(to, ...) issued while the storage is st
Issued(to, st) == [to |-> to, data |-> Data(st)]

\* ------------------------------------------------------------- entry points
\* default() crediting sp.balance instead of sp.amount
default_creditsBalance(st, amount) ==
    Done([st EXCEPT !.freeCollateral = @ + st.balance + amount,
                    !.balance = @ + amount],
         NoSent, 0, 0)

\* default(): value sent to the contract is added to freeCollateral
default(st, amount) ==
    Done([st EXCEPT !.freeCollateral = @ + amount, !.balance = @ + amount],
         NoSent, 0, 0)

\* the token claim rounded up instead of down
expectedReturnFor_roundsUp(amount, rate) == (amount + rate - 1) \div rate

\* sp.fst(sp.ediv(sp.amount, schedule[period]).open_some()) of deposit
expectedReturnFor(amount, rate) == amount \div rate

\* a deposit accepted whatever its claim
depositHighEnough_always(tokenBalance, wholeCoins) == TRUE

\* the deposit check accepting a claim equal to the whole coins
depositHighEnough_orEqual(tokenBalance, wholeCoins) == tokenBalance >= wholeCoins

\* sp.verify(tokenBalance.value > wholeCoins) of deposit
depositHighEnough(tokenBalance, wholeCoins) == tokenBalance > wholeCoins

\* the required collateral converted with nat_to_mutez instead of nat_to_tez
requiredCollateralFor_mutez(tokenBalance, wholeCoins) ==
    tokenBalance - wholeCoins

\* sp.utils.nat_to_tez(sp.as_nat(tokenBalance.value - wholeCoins)) of deposit
requiredCollateralFor(tokenBalance, wholeCoins) ==
    (tokenBalance - wholeCoins) * TEZ

\* deposit(): mint tokens against sp.amount at the current period's rate
deposit(st, t, sender, amount) ==
    LET period == getPeriod(t) IN
    IF ~(amount > 0) \/ ~period.ok \/ period.y \notin DOMAIN st.schedule
    THEN Failed(st)
    ELSE
    LET rate == st.schedule[period.y]
        some == rate # 0                            \* sp.ediv(...).is_some()
        tokenBalance == IF some THEN expectedReturnFor(amount, rate) ELSE 0
        wholeCoins   == amount \div TEZ
        requiredCollateral ==
            IF some THEN requiredCollateralFor(tokenBalance, wholeCoins) ELSE 0
    IN
    IF (some /\ ~depositHighEnough(tokenBalance, wholeCoins))
       \/ ~(requiredCollateral <= st.freeCollateral)
    THEN Failed(st)
    ELSE Done([st EXCEPT
                 !.freeCollateral = @ - requiredCollateral,
                 !.balances =
                    IF sender \notin DOMAIN @
                    THEN MapSet(@, sender,
                           [balance |-> tokenBalance, approvals |-> EmptyMap])
                    ELSE [@ EXCEPT ![sender].balance = @ + tokenBalance],
                 !.balance = @ + amount],
              NoSent, tokenBalance, 0)

\* the payout computed at par instead of at the period's rate
xtzBalanceFor_par(rate, amount) == split_tokens(TEZ, amount, 1)

\* xtzBalance of redeem and terminate: the tez paid for a token amount
xtzBalanceFor(rate, amount) == split_tokens(rate, amount, 1)

\* the released collateral computed without subtracting the rate
releasedCollateralFor_whole(rate, amount) == split_tokens(TEZ, amount, 1)

\* releasedCollateral of redeem and terminate: the collateral freed
releasedCollateralFor(rate, amount) == split_tokens(TEZ - rate, amount, 1)

\* the checks of redeem without the comparison of the balance and the amount
redeemAllowed_anyAmount(st, sender, amount) ==
    sender \in DOMAIN st.balances

\* the checks of redeem on the caller's token balance: the two sp.verify
\* and the sp.as_nat of the remaining balance
redeemAllowed(st, sender, amount) ==
    /\ sender \in DOMAIN st.balances
    /\ st.balances[sender].balance >= amount
    /\ st.balances[sender].balance - amount >= 0

\* redeem(amount): burn tokens, release collateral, pay the caller
redeem(st, t, sender, amount) ==
    LET currentPeriod == getPeriod(t) IN
    IF \/ ~redeemAllowed(st, sender, amount)
       \/ ~currentPeriod.ok
       \/ currentPeriod.y \notin DOMAIN st.schedule
       \/ TEZ - st.schedule[currentPeriod.y] < 0          \* mutez subtraction
    THEN Failed(st)
    ELSE
    LET xtzBalance == xtzBalanceFor(st.schedule[currentPeriod.y], amount)
        releasedCollateral ==
            releasedCollateralFor(st.schedule[currentPeriod.y], amount)
        remainingBalance == st.balances[sender].balance - amount
    IN
    IF xtzBalance > st.balance                      \* sp.send beyond sp.balance
    THEN Failed(st)
    ELSE
    LET updated == [st EXCEPT
                      !.freeCollateral = @ + releasedCollateral,
                      !.balances =
                         IF remainingBalance > 0
                         THEN [@ EXCEPT ![sender].balance = remainingBalance]
                         ELSE MapDel(@, sender)]
    IN [Done([updated EXCEPT !.balance = @ - xtzBalance],
             [NoSent EXCEPT ![sender] = xtzBalance], 0, releasedCollateral)
          EXCEPT !.seen = <<Issued(sender, updated)>>]

\* the allowance left as it was by a transfer
debitAllowance_keeps(approvals, destination, tokenBalance) == approvals

\* the last statement of transfer: the allowance is lowered by the amount
debitAllowance(approvals, destination, tokenBalance) ==
    [approvals EXCEPT ![destination] = @ - tokenBalance]

\* the view getDepositRedeemableValue(amount) at time t
getDepositRedeemableValue(st, t, amount) ==
    LET currentPeriod == getPeriod(t) IN
    IF ~currentPeriod.ok \/ currentPeriod.y \notin DOMAIN st.schedule
    THEN [ok |-> FALSE, value |-> 0]
    ELSE [ok |-> TRUE,
          value |-> split_tokens(st.schedule[currentPeriod.y], amount, 1)]

\* transfer(source, destination, tokenBalance): pull tokens from an allowance
transfer(st, sender, source, destination, tokenBalance) ==
    IF \/ ~(sender = destination)
       \/ source \notin DOMAIN st.balances
       \/ ~(source # destination)
       \/ destination \notin DOMAIN st.balances[source].approvals
       \/ ~(st.balances[source].approvals[destination] >= tokenBalance)
       \/ st.balances[source].balance - tokenBalance < 0            \* sp.as_nat
    THEN Failed(st)
    ELSE
    LET credited ==
          IF destination \notin DOMAIN st.balances
          THEN MapSet(st.balances, destination,
                      [balance |-> tokenBalance, approvals |-> EmptyMap])
          ELSE [st.balances EXCEPT ![destination].balance = @ + tokenBalance]
    IN Done([st EXCEPT !.balances =
               [credited EXCEPT
                  ![source].balance = @ - tokenBalance,
                  ![source].approvals =
                      debitAllowance(@, destination, tokenBalance)]],
            NoSent, 0, 0)

\* approve(spender, amount): set an allowance on the caller's tokens
approve(st, sender, spender, amount) ==
    IF \/ sender \notin DOMAIN st.balances
       \/ ~(sender # spender)
       \/ ~(st.balances[sender].balance >= amount)
       \/ ~(MapGet(st.balances[sender].approvals, spender, 0) = 0 \/ amount = 0)
    THEN Failed(st)
    ELSE Done([st EXCEPT !.balances[sender].approvals = MapSet(@, spender, amount)],
              NoSent, 0, 0)

\* the threshold comparison turned around
delegateThresholdMet_inverted(share) == share <= DELEGATE_THRESHOLD

\* the threshold comparison left out
delegateThresholdMet_anyShare(share) == share >= 0

\* the sp.if of setDelegate on the caller's share
delegateThresholdMet(share) == share >= DELEGATE_THRESHOLD

\* setDelegate(delegate): a guarantor above the threshold sets the delegate
setDelegate(st, sender, newDelegate) ==
    IF ~verifyGuarantor(st, sender) \/ sender \notin DOMAIN st.collateral
    THEN Failed(st)
    ELSE Done([st EXCEPT !.delegate =
                 IF delegateThresholdMet(st.collateral[sender])
                 THEN newDelegate ELSE @],
              NoSent, 0, 0)

\* the first loop of terminate over the supplied depositors.  xtzBalance is
\* a SmartPy expression over storage (not an sp.local): it is evaluated where
\* sp.send uses it, after the depositor's balance has been set to 0.
RECURSIVE terminatePayLoop(_, _, _)
terminatePayLoop(depositors, rate, acc) ==
    IF depositors = <<>> \/ ~acc.ok THEN acc
    ELSE
    LET depositor == Head(depositors) IN
    IF depositor \in DOMAIN acc.st.balances
    THEN
      LET releasedCollateral ==
              releasedCollateralFor(rate, acc.st.balances[depositor].balance)
          zeroed == [acc.st.balances EXCEPT
                       ![depositor] = [balance |-> 0, approvals |-> EmptyMap]]
          xtzBalance == xtzBalanceFor(rate, zeroed[depositor].balance)
      IN terminatePayLoop(Tail(depositors), rate,
            [ok       |-> xtzBalance <= acc.st.balance,
             st       |-> [acc.st EXCEPT
                             !.freeCollateral = @ + releasedCollateral,
                             !.balances = zeroed,
                             !.balance = @ - xtzBalance],
             sent     |-> [acc.sent EXCEPT ![depositor] = @ + xtzBalance],
             minted   |-> 0,
             released |-> acc.released + releasedCollateral,
             seen     |-> Append(acc.seen,
                             Issued(depositor,
                                    [acc.st EXCEPT
                                       !.freeCollateral = @ + releasedCollateral,
                                       !.balances = zeroed]))])
    ELSE terminatePayLoop(Tail(depositors), rate, acc)

\* the second loop of terminate: del self.data.balances[depositor]
RECURSIVE terminateDelLoop(_, _)
terminateDelLoop(depositors, bals) ==
    IF depositors = <<>> THEN bals
    ELSE terminateDelLoop(Tail(depositors), MapDel(bals, Head(depositors)))

\* the checks of terminate without the validity-period check
terminateAllowed_anyPeriod(st, currentPeriod, sender) ==
    verifyGuarantor(st, sender)

\* the two sp.verify of terminate
terminateAllowed(st, currentPeriod, sender) ==
    /\ verifyGuarantor(st, sender)
    /\ currentPeriod = periods

\* terminate(depositors): a guarantor closes depositor positions at maturity
terminate(st, t, sender, depositors) ==
    LET currentPeriod == getPeriod(t) IN
    IF \/ ~currentPeriod.ok
       \/ ~terminateAllowed(st, currentPeriod.y, sender)
       \/ currentPeriod.y \notin DOMAIN st.schedule
       \/ TEZ - st.schedule[currentPeriod.y] < 0
    THEN Failed(st)
    ELSE
    LET r == terminatePayLoop(depositors, st.schedule[currentPeriod.y],
                              Done(st, NoSent, 0, 0))
    IN
    IF ~r.ok THEN Failed(st)
    ELSE [r EXCEPT !.st.balances = terminateDelLoop(depositors, @)]

\* a share of the new collateral balance rounded up
newGuarantorShareFor_roundsUp(guarantorBalance, newCollateralBalance) ==
    LET qr == MulDivQR(guarantorBalance, 1000000, newCollateralBalance)
    IN  qr[1] + (IF qr[2] > 0 THEN 1 ELSE 0)

\* newGuarantorShare = guarantorBalance * sp.nat(1000000) / newCollateralBalance
newGuarantorShareFor(guarantorBalance, newCollateralBalance) ==
    MulDiv(guarantorBalance, 1000000, newCollateralBalance)

\* the loop of rebalanceCollateralDeposit over self.data.guarantors
RECURSIVE rebalanceDepositLoop(_, _, _, _, _, _)
rebalanceDepositLoop(gs, sender, increase, currentCollateralBalance, newCollateralBalance, acc) ==
    IF gs = <<>> \/ ~acc.ok THEN acc
    ELSE
    LET guarantor == Head(gs) IN
    IF guarantor \notin DOMAIN acc.collateral \/ newCollateralBalance = 0
    THEN [acc EXCEPT !.ok = FALSE]
    ELSE
    LET currentGuarantorBalance ==
            split_tokens(currentCollateralBalance, acc.collateral[guarantor],
                         1000000)
        newGuarantorShare ==
            IF guarantor # sender
            THEN newGuarantorShareFor(currentGuarantorBalance, newCollateralBalance)
            ELSE newGuarantorShareFor(currentGuarantorBalance + increase,
                                      newCollateralBalance)
    IN rebalanceDepositLoop(Tail(gs), sender, increase, currentCollateralBalance,
          newCollateralBalance,
          [ok |-> TRUE,
           collateral |-> [acc.collateral EXCEPT ![guarantor] = newGuarantorShare],
           newGuarantor |-> acc.newGuarantor /\ guarantor # sender])

\* rebalanceCollateralDeposit(increase); st.balance is sp.balance, which
\* already includes sp.amount
rebalanceCollateralDeposit(st, sender, increase) ==
    LET newCollateralBalance == st.balance
        currentCollateralBalance == st.balance - increase
        r == rebalanceDepositLoop(st.guarantors, sender, increase,
                 currentCollateralBalance, newCollateralBalance,
                 [ok |-> currentCollateralBalance >= 0,
                  collateral |-> st.collateral, newGuarantor |-> TRUE])
    IN
    IF ~r.ok THEN [ok |-> FALSE, st |-> st]
    ELSE IF ~r.newGuarantor
    THEN [ok |-> TRUE, st |-> [st EXCEPT !.collateral = r.collateral]]
    ELSE IF newCollateralBalance = 0
    THEN [ok |-> FALSE, st |-> st]
    ELSE [ok |-> TRUE,
          st |-> [st EXCEPT
                    !.collateral = MapSet(r.collateral, sender,
                        newGuarantorShareFor(increase, newCollateralBalance)),
                    !.guarantors = <<sender>> \o @]]

\* depositCollateral(): a guarantor adds sp.amount to the free collateral
depositCollateral(st, sender, amount) ==
    LET paid == [st EXCEPT !.balance = @ + amount]
        r == IF Len(st.guarantors) = 0
             THEN [ok |-> TRUE,
                   st |-> [paid EXCEPT
                             !.guarantors = <<sender>> \o @,
                             !.collateral = MapSet(@, sender, 1000000)]]
             ELSE IF MapGet(st.collateral, sender, 0) = 1000000
             THEN [ok |-> TRUE, st |-> paid]
             ELSE rebalanceCollateralDeposit(paid, sender, amount)
    IN
    IF ~r.ok THEN Failed(st)
    ELSE Done([r.st EXCEPT !.freeCollateral = @ + amount], NoSent, 0, 0)

\* a withdrawing guarantor that is never removed
removeGuarantorFor_never(newGuarantorBalance) == FALSE

\* sp.if (newGuarantorBalance.value < sp.nat(20)): the guarantor is removed
removeGuarantorFor(newGuarantorBalance) == newGuarantorBalance < 20

\* the loop of rebalanceCollateralWithdrawal over self.data.guarantors
RECURSIVE rebalanceWithdrawalLoop(_, _, _, _, _, _)
rebalanceWithdrawalLoop(gs, sender, decrease, currentCollateralBalance, newCollateralBalance, acc) ==
    IF gs = <<>> \/ ~acc.ok THEN acc
    ELSE
    LET guarantor == Head(gs) IN
    IF guarantor \notin DOMAIN acc.collateral
    THEN [acc EXCEPT !.ok = FALSE]
    ELSE
    LET currentGuarantorBalance ==
            split_tokens(currentCollateralBalance, acc.collateral[guarantor],
                         1000000)
        newGuarantorBalance == currentGuarantorBalance - decrease
    IN
    IF guarantor # sender
    THEN IF newCollateralBalance = 0
         THEN [acc EXCEPT !.ok = FALSE]
         ELSE rebalanceWithdrawalLoop(Tail(gs), sender, decrease,
                currentCollateralBalance, newCollateralBalance,
                [acc EXCEPT !.collateral[guarantor] =
                   newGuarantorShareFor(currentGuarantorBalance,
                                        newCollateralBalance)])
    ELSE IF newGuarantorBalance < 0                              \* sp.as_nat
    THEN [acc EXCEPT !.ok = FALSE]
    ELSE IF removeGuarantorFor(newGuarantorBalance)
    THEN rebalanceWithdrawalLoop(Tail(gs), sender, decrease,
           currentCollateralBalance, newCollateralBalance,
           [ok |-> TRUE, collateral |-> MapDel(acc.collateral, guarantor),
            removeGuarantor |-> TRUE])
    ELSE IF newCollateralBalance = 0
    THEN [acc EXCEPT !.ok = FALSE]
    ELSE rebalanceWithdrawalLoop(Tail(gs), sender, decrease,
           currentCollateralBalance, newCollateralBalance,
           [acc EXCEPT !.collateral[guarantor] =
              newGuarantorShareFor(newGuarantorBalance, newCollateralBalance)])

\* reducedGuarantors: every guarantor but the sender, pushed in list order
RECURSIVE reducedGuarantors(_, _, _)
reducedGuarantors(gs, sender, acc) ==
    IF gs = <<>> THEN acc
    ELSE reducedGuarantors(Tail(gs), sender,
            IF Head(gs) = sender THEN acc ELSE <<Head(gs)>> \o acc)

\* rebalanceCollateralWithdrawal(decrease); st.balance is sp.balance
rebalanceCollateralWithdrawal(st, sender, decrease) ==
    LET currentCollateralBalance == st.balance
        newCollateralBalance == st.balance - decrease
        r == rebalanceWithdrawalLoop(st.guarantors, sender, decrease,
                 currentCollateralBalance, newCollateralBalance,
                 [ok |-> newCollateralBalance >= 0, collateral |-> st.collateral,
                  removeGuarantor |-> FALSE])
    IN
    IF ~r.ok THEN [ok |-> FALSE, st |-> st]
    ELSE [ok |-> TRUE,
          st |-> [st EXCEPT
                    !.collateral = r.collateral,
                    !.guarantors = IF r.removeGuarantor
                                   THEN reducedGuarantors(@, sender, <<>>)
                                   ELSE @]]

\* the caller's part taken to be the whole free collateral
withdrawShareFor_whole(st, sender) == st.freeCollateral

\* share of withdrawCollateral: the caller's part of the free collateral
withdrawShareFor(st, sender) ==
    split_tokens(st.freeCollateral, st.collateral[sender], 1000000)

\* withdrawCollateral(amount): a guarantor takes out part of its share
withdrawCollateral(st, sender, amount) ==
    IF sender \notin DOMAIN st.collateral THEN Failed(st)
    ELSE
    LET share == withdrawShareFor(st, sender) IN
    IF ~(share >= amount) \/ ~(amount <= st.freeCollateral) THEN Failed(st)
    ELSE
    LET r == rebalanceCollateralWithdrawal(st, sender, amount) IN
    IF ~r.ok \/ amount > st.balance                 \* sp.send beyond sp.balance
    THEN Failed(st)
    ELSE
    LET updated == [r.st EXCEPT !.freeCollateral = @ - amount] IN
    [Done([updated EXCEPT !.balance = @ - amount],
          [NoSent EXCEPT ![sender] = amount], 0, 0)
       EXCEPT !.seen = <<Issued(sender, updated)>>]

\* -------------------------------------------------------------------- Init
\* record of the last successful entry-point call
Call(op, sender, amount, arg, r) ==
    [op |-> op, sender |-> sender, amount |-> amount, arg |-> arg,
     sent |-> r.sent, minted |-> r.minted]

InstrumentInit ==
    /\ now = start
    /\ balance = 0
    /\ freeCollateral = 0
    /\ balances = EmptyMap
    /\ collateral = EmptyMap
    /\ guarantors = <<>>
    /\ delegate = NoDelegate
    /\ depositedCollateral = 0
    /\ rewards = 0
    /\ released = 0
    /\ last = [op |-> "init", sender |-> "none", amount |-> 0, arg |-> 0,
               sent |-> NoSent, minted |-> 0]
    /\ nops = 0

\* ------------------------------------------------------------- ShareToken
\* addresses: the _deployer the contract is constructed with, the address
\* bootstrap writes into self.data.deployer (tz1Ke2h7sDdakHJQh8WX4Z372du1KChsksyU,
\* the null address, for which nobody can sign), a contract with a
\* registerShare entry point, two share holders, and a third account that
\* receives shares and is approved as a spender
Deployer     == "deployer"
NullAddress  == "tz1Ke2h7sDdakHJQh8WX4Z372du1KChsksyU"
ParentContract == "instrument"
Holders      == {"alice", "bob"}
Recipients   == Holders \cup {"carol"}
ShareAddresses == {Deployer, NullAddress, ParentContract} \cup Recipients
\* the accounts that can sign an operation (sp.source)
ShareSources == {Deployer} \cup Holders
\* the accounts and contracts that can send a call (sp.sender)
ShareSenders == {Deployer, ParentContract} \cup Recipients
ShareAmounts == {0, 1, 2}

ShareStorage ==
    [deployer |-> shareDeployer, parent |-> shareParent,
     balances |-> shareBalances]

ShareFailed(st) == [ok |-> FALSE, st |-> st]
ShareDone(st)   == [ok |-> TRUE, st |-> st]

\* bootstrap leaving self.data.deployer as it is
retiredDeployer_keeps(deployer) == deployer

\* self.data.deployer = sp.address('tz1Ke2h7sDdakHJQh8WX4Z372du1KChsksyU')
retiredDeployer(deployer) == NullAddress

\* ShareToken.bootstrap(_parent) with sp.source = source
bootstrap(st, source, _parent) ==
    IF ~(source = st.deployer) \/ ~(st.deployer = st.parent)
    THEN ShareFailed(st)
    ELSE ShareDone([st EXCEPT !.parent = _parent,
                              !.deployer = retiredDeployer(@)])

\* sp.contract(RegisterShareType, parent, entry_point = "registerShare")
\* .is_some(): the parent is a contract with that entry point
hasRegisterShare(addr) == addr = ParentContract

\* ShareToken.transfer(source, destination, amount) with sp.sender = sender
shareTransfer(st, sender, source, destination, amount) ==
    IF \/ source \notin DOMAIN st.balances
       \/ ~(source # destination)
       \/ ~(st.balances[source].balance >= amount)
       \/ /\ sender # source
          /\ \/ sender \notin DOMAIN st.balances[source].approvals
             \/ ~(st.balances[source].approvals[sender] >= amount)
             \/ destination \notin DOMAIN st.balances[source].approvals
             \/ st.balances[source].approvals[destination] - amount < 0
       \/ ~hasRegisterShare(st.parent)
    THEN ShareFailed(st)
    ELSE
    LET credited ==
          IF destination \notin DOMAIN st.balances
          THEN MapSet(st.balances, destination,
                      [balance |-> amount, approvals |-> EmptyMap])
          ELSE [st.balances EXCEPT ![destination].balance = @ + amount]
        debited == [credited EXCEPT ![source].balance = @ - amount]
    IN ShareDone([st EXCEPT !.balances =
                    IF sender # source
                    THEN [debited EXCEPT
                            ![source].approvals[destination] = @ - amount]
                    ELSE debited])

\* ShareToken.approve(spender, amount) with sp.sender = sender
shareApprove(st, sender, spender, amount) ==
    IF \/ sender \notin DOMAIN st.balances
       \/ ~(sender # spender)
       \/ ~(MapGet(st.balances[sender].approvals, spender, 0) = 0 \/ amount = 0)
    THEN ShareFailed(st)
    ELSE ShareDone([st EXCEPT !.balances[sender].approvals =
                      IF amount > 0 THEN MapSet(@, spender, amount)
                      ELSE MapDel(@, spender)])

\* ShareToken.setBalance(account, amount) with sp.sender = sender
setBalance(st, sender, account, amount) ==
    IF ~(sender = st.parent) THEN ShareFailed(st)
    ELSE ShareDone([st EXCEPT !.balances =
                      IF amount > 0
                      THEN IF account \notin DOMAIN @
                           THEN MapSet(@, account,
                                  [balance |-> amount, approvals |-> EmptyMap])
                           ELSE [@ EXCEPT ![account].balance = amount]
                      ELSE MapDel(@, account)])

\* ShareToken.getAllowance(owner, spender)
getAllowance(st, owner, spender) ==
    IF owner \notin DOMAIN st.balances THEN 0
    ELSE IF spender \notin DOMAIN st.balances[owner].approvals THEN 0
    ELSE st.balances[owner].approvals[spender]

\* ShareToken.__init__(_deployer, _metadata)
ShareTokenInit ==
    /\ shareDeployer = Deployer
    /\ shareParent = Deployer
    /\ shareBalances = EmptyMap
    /\ bootstraps = 0
    /\ shareLast = [op |-> "init", source |-> "none", arg |-> 0]
    /\ shareOps = 0

\* the effect of a ShareToken call with result r: a failed call changes nothing
ShareApply(op, source, arg, r) ==
    /\ shareOps < MaxShareOps
    /\ IF r.ok
       THEN /\ shareDeployer' = r.st.deployer
            /\ shareParent' = r.st.parent
            /\ shareBalances' = r.st.balances
            /\ bootstraps' = bootstraps + (IF op = "bootstrap" THEN 1 ELSE 0)
            /\ shareLast' = [op |-> op, source |-> source, arg |-> arg]
            /\ shareOps' = shareOps + 1
            /\ UNCHANGED instrumentVars
       ELSE UNCHANGED vars

Bootstrap(source, _parent) ==
    ShareApply("bootstrap", source, _parent,
               bootstrap(ShareStorage, source, _parent))

\* ShareToken.default(): accepts the call and does nothing
ShareDefault(sender) ==
    ShareApply("default", sender, 0, ShareDone(ShareStorage))

ShareTransfer(sender, source, destination, amount) ==
    ShareApply("transfer", sender, <<source, destination, amount>>,
               shareTransfer(ShareStorage, sender, source, destination, amount))

ShareApprove(sender, spender, amount) ==
    ShareApply("approve", sender, <<spender, amount>>,
               shareApprove(ShareStorage, sender, spender, amount))

SetBalance(sender, account, amount) ==
    ShareApply("setBalance", sender, <<account, amount>>,
               setBalance(ShareStorage, sender, account, amount))

ShareNext ==
    \/ \E s \in ShareSources, p \in ShareAddresses : Bootstrap(s, p)
    \/ \E s \in ShareSenders : ShareDefault(s)
    \/ \E s \in ShareSenders, src \in Holders, dst \in Recipients,
          n \in ShareAmounts : ShareTransfer(s, src, dst, n)
    \/ \E s \in Holders, sp \in Recipients, n \in ShareAmounts :
          ShareApprove(s, sp, n)
    \/ \E s \in ShareSenders, a \in Holders, n \in ShareAmounts :
          SetBalance(s, a, n)

ShareInit ==
    /\ schedule = TestSchedule
    /\ InstrumentInit
    /\ ShareTokenInit

ShareSpec == ShareInit /\ [][ShareNext]_vars

Init ==
    /\ schedule \in Schedules
    /\ InstrumentInit
    /\ ShareTokenInit

\* ----------------------------------------------------------------- actions
\* the effect of a call with result r: a failed call changes nothing
Apply(op, sender, amount, arg, r, dDeposited, dRewards) ==
    /\ nops < MaxOps
    /\ IF r.ok
       THEN /\ freeCollateral' = r.st.freeCollateral
            /\ balances' = r.st.balances
            /\ collateral' = r.st.collateral
            /\ guarantors' = r.st.guarantors
            /\ balance' = r.st.balance
            /\ delegate' = r.st.delegate
            /\ depositedCollateral' = depositedCollateral + dDeposited
            /\ rewards' = rewards + dRewards
            /\ released' = released + r.released
            /\ last' = Call(op, sender, amount, arg, r)
            /\ nops' = nops + 1
            /\ UNCHANGED <<schedule, now>>
            /\ UNCHANGED shareVars
       ELSE UNCHANGED vars

\* the chain's clock advances between operations
Tick ==
    /\ now < start + duration + MaxNow
    /\ now' = now + 1
    /\ UNCHANGED <<schedule, balance, freeCollateral, balances, collateral,
                   guarantors, delegate, ghost, last, nops>>
    /\ UNCHANGED shareVars

Default(sender, amount) ==
    Apply("default", sender, amount, 0, default(Storage, amount), 0, amount)

Deposit(sender, amount) ==
    Apply("deposit", sender, amount, 0, deposit(Storage, now, sender, amount), 0, 0)

Redeem(sender, amount) ==
    Apply("redeem", sender, 0, amount, redeem(Storage, now, sender, amount), 0, 0)

Transfer(sender, source, destination, tokenBalance) ==
    Apply("transfer", sender, 0, <<source, destination, tokenBalance>>,
          transfer(Storage, sender, source, destination, tokenBalance), 0, 0)

Approve(sender, spender, amount) ==
    Apply("approve", sender, 0, <<spender, amount>>,
          approve(Storage, sender, spender, amount), 0, 0)

SetDelegate(sender, newDelegate) ==
    Apply("setDelegate", sender, 0, newDelegate,
          setDelegate(Storage, sender, newDelegate), 0, 0)

Terminate(sender, depositors) ==
    Apply("terminate", sender, 0, depositors,
          terminate(Storage, now, sender, depositors), 0, 0)

DepositCollateral(sender, amount) ==
    Apply("depositCollateral", sender, amount, 0,
          depositCollateral(Storage, sender, amount), amount, 0)

WithdrawCollateral(sender, amount) ==
    Apply("withdrawCollateral", sender, 0, amount,
          withdrawCollateral(Storage, sender, amount), 0 - amount, 0)

\* ------------------------------------------------------------ specification
Next ==
    \/ Tick
    \/ \E s \in Bakers, a \in RewardAmounts : Default(s, a)
    \/ \E s \in Depositors, a \in DepositAmounts : Deposit(s, a)
    \/ \E s \in Depositors, a \in RedeemAmounts : Redeem(s, a)
    \/ \E s \in Depositors, src \in Depositors, dst \in Depositors,
          n \in TokenAmounts : Transfer(s, src, dst, n)
    \/ \E s \in Depositors, sp \in Depositors, n \in TokenAmounts :
          Approve(s, sp, n)
    \/ \E s \in Accounts, d \in Bakers : SetDelegate(s, d)
    \/ \E s \in Accounts, ds \in TerminateLists : Terminate(s, ds)
    \/ \E s \in Guarantors, a \in CollateralAmounts : DepositCollateral(s, a)
    \/ \E s \in Accounts, a \in WithdrawAmounts : WithdrawCollateral(s, a)

Spec == Init /\ [][Next]_vars

\* ------------------------------------------------------------------ claims
\* a call was applied in this step: every successful call counts one
Called(op) == nops' = nops + 1 /\ last'.op = op

\* token balance of an account, 0 when it has no entry
BalanceOf(bals, a) == IF a \in DOMAIN bals THEN bals[a].balance ELSE 0

\* deposit values and token amounts the claims are evaluated on
ProbeDeposits == DepositAmounts \cup {1, 1000000, 46000000}
ProbeTokens   == RedeemAmounts \cup {0, 3, 9}

\* C1: global solvency: the tez held by the contract cover freeCollateral
\* plus 1 tez for every outstanding depositor token
C1_Solvency ==
    balance >= freeCollateral + TEZ * TotalTokens(balances)

\* a redeem has paid out and tokens and free collateral remain
C1_Witness ==
    /\ last.op = "redeem"
    /\ TotalTokens(balances) > 0
    /\ freeCollateral > 0

\* C2 as stated: freeCollateral lies between 0 and the net collateral
\* contributed by guarantors
C2_Original ==
    freeCollateral >= 0 /\ freeCollateral <= depositedCollateral

\* C2 as amended: freeCollateral is at least 0 and at most the net collateral
\* contributed by guarantors plus the rewards received through default plus
\* the collateral released by redeem and terminate
C2_Amended ==
    /\ freeCollateral >= 0
    /\ freeCollateral <= depositedCollateral + rewards + released

\* rewards and released collateral lift freeCollateral above the net
\* contributions
C2_Witness ==
    /\ rewards > 0
    /\ released > 0
    /\ freeCollateral > depositedCollateral

\* C3: a successful deposit of v credits floor(v / schedule[p]) tokens to the
\* sender, lowers freeCollateral by (claim - floor(v / 1 tez)) tez and changes
\* no other balance, no share and no other storage field
C3_DepositEffect ==
    [][Called("deposit") =>
        LET s     == last'.sender
            v     == last'.amount
            claim == v \div schedule[getPeriod(now).y]
        IN  /\ BalanceOf(balances', s) = BalanceOf(balances, s) + claim
            /\ balances'[s].approvals =
                 (IF s \in DOMAIN balances THEN balances[s].approvals ELSE EmptyMap)
            /\ freeCollateral' = freeCollateral - (claim - (v \div TEZ)) * TEZ
            /\ DOMAIN balances' = DOMAIN balances \cup {s}
            /\ \A a \in DOMAIN balances \ {s} : balances'[a] = balances[a]
            /\ UNCHANGED <<schedule, collateral, guarantors, delegate>>]_vars

\* a deposit was made while another account holds tokens and shares exist
C3_Witness ==
    /\ last.op = "deposit"
    /\ last.minted > 0
    /\ \E a \in DOMAIN balances \ {last.sender} : balances[a].balance > 0
    /\ DOMAIN collateral # {}

\* C4: a deposit of value 0, or whose claim does not exceed its whole coins,
\* or whose required collateral exceeds freeCollateral, or made while
\* freeCollateral is 0, is rejected, and a rejected deposit changes nothing
C4_DepositRejected ==
    [](\A s \in Depositors, v \in ProbeDeposits :
        LET r       == deposit(Storage, now, s, v)
            p       == getPeriod(now)
            defined == p.ok /\ p.y \in DOMAIN schedule
            claim   == v \div schedule[p.y]
            whole   == v \div TEZ
        IN  /\ (\/ v = 0
                \/ freeCollateral = 0
                \/ defined /\ claim <= whole
                \/ defined /\ (claim - whole) * TEZ > freeCollateral)
               => ~r.ok
            /\ ~r.ok => r.st = Storage /\ r.minted = 0 /\ r.sent = NoSent)

\* free collateral exists, yet a deposit with a claim above its whole coins
\* needs more than is free and is rejected
C4_Witness ==
    /\ last.op = "depositCollateral"
    /\ freeCollateral > 0
    /\ \E s \in Depositors, v \in ProbeDeposits :
          /\ getPeriod(now).y \in DOMAIN schedule
          /\ v \div schedule[getPeriod(now).y] > v \div TEZ
          /\ ~deposit(Storage, now, s, v).ok

\* C5: a successful redeem(amount) pays the caller schedule[p] * amount, adds
\* (1 tez - schedule[p]) * amount to freeCollateral, lowers the caller's
\* balance by amount, removing the entry at 0; payout + released = amount tez
C5_RedeemEffect ==
    [][Called("redeem") =>
        LET s      == last'.sender
            amount == last'.arg
            rate   == schedule[getPeriod(now).y]
            payout == rate * amount
            free   == (TEZ - rate) * amount
        IN  /\ last'.sent = [NoSent EXCEPT ![s] = payout]
            /\ balance' = balance - payout
            /\ freeCollateral' = freeCollateral + free
            /\ BalanceOf(balances', s) = balances[s].balance - amount
            /\ (s \in DOMAIN balances') = (balances[s].balance - amount > 0)
            /\ payout + free = amount * TEZ
            /\ \A a \in DOMAIN balances \ {s} :
                  a \in DOMAIN balances' /\ balances'[a] = balances[a]]_vars

\* a redeem of the caller's whole balance has paid out and removed the entry
C5_Witness ==
    /\ last.op = "redeem"
    /\ last.sent[last.sender] > 0
    /\ last.sender \notin DOMAIN balances

\* C6: a redeem by a caller with no balance entry or a balance below the
\* amount is rejected and changes nothing
C6_RedeemRejected ==
    \A s \in Accounts, amount \in ProbeTokens :
        (s \notin DOMAIN balances \/ balances[s].balance < amount) =>
            LET r == redeem(Storage, now, s, amount)
            IN  ~r.ok /\ r.st = Storage /\ r.sent = NoSent

\* after a partial redeem the holder asks for more than is left
C6_Witness ==
    /\ last.op = "redeem"
    /\ last.sender \in DOMAIN balances
    /\ balances[last.sender].balance < 2
    /\ ~redeem(Storage, now, last.sender, 2).ok
    /\ redeem(Storage, now, last.sender, 1).ok

\* C7: whenever deposit(v) succeeds, redeeming the whole resulting claim at
\* the same time pays back payout with 0 <= v - payout < schedule[p]
C7_RoundTrip ==
    [](\A s \in Depositors, v \in ProbeDeposits :
        LET d == deposit(Storage, now, s, v) IN
        d.ok =>
            LET r == redeem(d.st, now, s, d.minted)
            IN  /\ r.ok
                /\ 0 <= v - r.sent[s]
                /\ v - r.sent[s] < schedule[getPeriod(now).y])

\* a deposit has been made, and a deposit made now and redeemed in full
\* returns less than was deposited
C7_Witness ==
    /\ last.op = "deposit"
    /\ \E s \in Depositors, v \in ProbeDeposits :
          LET d == deposit(Storage, now, s, v) IN
          /\ d.ok
          /\ redeem(d.st, now, s, d.minted).ok
          /\ redeem(d.st, now, s, d.minted).sent[s] < v

\* C8: for every now >= start the period is an index in 0..periods: periods
\* after start + duration, else periods - floor((duration - (now - start)) /
\* interval) - 1 clamped to 0..periods-1
C8_PeriodInRange ==
    now >= start =>
        LET p   == getPeriod(now)
            raw == periods - ((duration - (now - start)) \div interval) - 1
        IN  /\ p.ok
            /\ p.y \in 0..periods
            /\ now > start + duration => p.y = periods
            /\ now <= start + duration =>
                 p.y = (IF raw < 0 THEN 0
                        ELSE IF raw > periods - 1 THEN periods - 1 ELSE raw)

C10_TerminateNeedsShare ==
    last.op = "terminate" => MapGet(collateral, last.sender, 0) > 0

\* withdrawal amounts the claims are evaluated on
ProbeWithdraw == WithdrawAmounts \cup {0, 3000000}

\* the accounts named in a list
Listed(ds) == {ds[i] : i \in DOMAIN ds}

\* C11: a successful terminate(depositors) pays each listed depositor that
\* holds tokens schedule[periods] * balance and removes its balance, leaves
\* unlisted depositors untouched, and a second terminate with the same list
\* pays nothing and changes nothing
C11_TerminateEffect ==
    [][Called("terminate") =>
        LET ds   == last'.arg
            rate == schedule[periods]
            r2   == terminate(Storage', now', last'.sender, ds)
        IN  /\ \A d \in Accounts :
                  last'.sent[d] = (IF d \in Listed(ds)
                                   THEN rate * BalanceOf(balances, d) ELSE 0)
            /\ \A d \in Listed(ds) : d \notin DOMAIN balances'
            /\ \A d \in DOMAIN balances \ Listed(ds) :
                  d \in DOMAIN balances' /\ balances'[d] = balances[d]
            /\ r2.ok /\ r2.sent = NoSent /\ r2.st = Storage']_vars

\* the sum of the guarantors' shares
TotalShares(coll) == SumOver(coll, DOMAIN coll)

\* C12: after a sequence of depositCollateral and withdrawCollateral calls
\* (no reward and no depositor funds held) that leaves a guarantor, the
\* guarantors' shares add up to 1,000,000
C12_ShareConservation ==
    (guarantors # <<>> /\ rewards = 0 /\ balances = EmptyMap
        /\ balance = depositedCollateral)
      => TotalShares(collateral) = 1000000

\* redeemable value of a guarantor: floor(freeCollateral * share / 1,000,000)
RedeemableValue(free, share) == MulDiv(free, share, 1000000)

\* C13: a depositCollateral call does not lower the redeemable value of any
\* guarantor other than the caller
C13_DilutionFair ==
    [][Called("depositCollateral") =>
        \A g \in DOMAIN collateral \ {last'.sender} :
            /\ g \in DOMAIN collateral'
            /\ RedeemableValue(freeCollateral', collateral'[g])
                 >= RedeemableValue(freeCollateral, collateral[g])]_vars

\* C14: a successful withdrawCollateral(amount) comes from a guarantor, with
\* amount at most floor(freeCollateral * share / 1,000,000) and at most
\* freeCollateral; it lowers freeCollateral by amount and sends amount to the
\* caller; a call by a non-guarantor is rejected and changes nothing
C14_WithdrawGuarded ==
    /\ [][Called("withdrawCollateral") =>
            LET s == last'.sender
                a == last'.arg
            IN  /\ s \in DOMAIN collateral
                /\ verifyGuarantor(Storage, s)
                /\ a <= RedeemableValue(freeCollateral, collateral[s])
                /\ a <= freeCollateral
                /\ freeCollateral' = freeCollateral - a
                /\ balance' = balance - a
                /\ last'.sent = [NoSent EXCEPT ![s] = a]]_vars
    /\ [](\A s \in Accounts, a \in ProbeWithdraw :
            (s \notin DOMAIN collateral \/ ~verifyGuarantor(Storage, s)) =>
                \A r \in {withdrawCollateral(Storage, s, a)} :
                    ~r.ok /\ r.st = Storage /\ r.sent = NoSent)

\* a guarantor has withdrawn, and a request above its part of the free
\* collateral, though below the free collateral, is rejected
C14_Witness ==
    /\ last.op = "withdrawCollateral"
    /\ last.sent[last.sender] = last.arg
    /\ \E s \in DOMAIN collateral, a \in ProbeWithdraw :
          /\ a > RedeemableValue(freeCollateral, collateral[s])
          /\ a <= freeCollateral
          /\ ~withdrawCollateral(Storage, s, a).ok
    /\ \E s \in Accounts : s \notin DOMAIN collateral

AllowanceOf(bals, owner, spender) ==
    IF owner \in DOMAIN bals THEN MapGet(bals[owner].approvals, spender, 0) ELSE 0

\* C18: a successful transfer(source, destination, n) is sent by the
\* destination, has n at most the allowance and at most the source's balance,
\* moves n tokens from source to destination, lowers the allowance by n to a
\* value that is not negative, and leaves the total of the token balances and
\* freeCollateral unchanged
C18_AllowanceTransfer ==
    [][Called("transfer") =>
        LET src == last'.arg[1]
            dst == last'.arg[2]
            n   == last'.arg[3]
        IN  /\ last'.sender = dst
            /\ src # dst
            /\ n <= AllowanceOf(balances, src, dst)
            /\ n <= BalanceOf(balances, src)
            /\ BalanceOf(balances', src) = BalanceOf(balances, src) - n
            /\ BalanceOf(balances', dst) = BalanceOf(balances, dst) + n
            /\ AllowanceOf(balances', src, dst) = AllowanceOf(balances, src, dst) - n
            /\ AllowanceOf(balances', src, dst) >= 0
            /\ TotalTokens(balances') = TotalTokens(balances)
            /\ freeCollateral' = freeCollateral
            /\ \A a \in DOMAIN balances \ {src, dst} :
                  a \in DOMAIN balances' /\ balances'[a] = balances[a]]_vars

\* a spender has pulled part of its allowance and part of it is left
C18_Witness ==
    /\ last.op = "transfer"
    /\ last.arg[3] > 0
    /\ AllowanceOf(balances, last.arg[1], last.arg[2]) > 0
    /\ BalanceOf(balances, last.arg[2]) >= last.arg[3]

\* C19: whenever the clock advances to a time t2, for every t1 with
\* start < t1 <= t2 the period at t1 is at most the period at t2 and the
\* redeemable value of a token amount at t1 is at most its value at t2; after
\* start + duration the value is amount * 1 tez; redeem pays that value
C19_ValueRises ==
    [][/\ now' # now =>
            /\ \A p2 \in {getPeriod(now')} :
                  /\ p2.ok
                  /\ \A t1 \in (start + 1)..now' :
                        getPeriod(t1).ok /\ getPeriod(t1).y <= p2.y
            /\ \A amount \in RedeemAmounts \cup {9} :
                  \A v2 \in {getDepositRedeemableValue(Storage, now', amount)} :
                      /\ v2.ok
                      /\ now' > start + duration => v2.value = amount * TEZ
                      /\ \A t1 \in (start + 1)..now' :
                            \A v1 \in {getDepositRedeemableValue(Storage, t1, amount)} :
                                v1.ok /\ v1.value <= v2.value
       /\ Called("redeem") =>
            \A v \in {getDepositRedeemableValue(Storage, now, last'.arg)} :
                /\ v.ok
                /\ last'.sent[last'.sender] = v.value
                /\ now > start + duration => v.value = last'.arg * TEZ]_vars

\* after maturity a holder has redeemed at 1 tez per token an amount that was
\* worth less in the first period
C19_Witness ==
    /\ now > start + duration
    /\ last.op = "redeem"
    /\ last.sent[last.sender] = last.arg * TEZ
    /\ getDepositRedeemableValue(Storage, start + 1, last.arg).value
         < last.arg * TEZ

\* every transfer of a call is issued on the storage the call ends with
SeenSettled(r) ==
    r.ok => \A i \in DOMAIN r.seen : r.seen[i].data = Data(r.st)

\* C20: in redeem, terminate and withdrawCollateral every change of the
\* storage is applied before a transfer is issued
C20_MutationsBeforeSend ==
    /\ \A s \in Accounts, a \in ProbeTokens :
          SeenSettled(redeem(Storage, now, s, a))
    /\ \A s \in Accounts, a \in ProbeWithdraw :
          SeenSettled(withdrawCollateral(Storage, s, a))
    /\ \A s \in Accounts, ds \in TerminateLists :
          SeenSettled(terminate(Storage, now, s, ds))

\* C17: bootstrap succeeds only when its source is the deployer and no
\* bootstrap has succeeded before; once one has succeeded, no later call of
\* any entry point, by any source and with any argument, changes parent
C17_BootstrapOnce ==
    [][/\ bootstraps' # bootstraps =>
            /\ bootstraps = 0
            /\ shareLast'.op = "bootstrap"
            /\ shareLast'.source = shareDeployer
            /\ shareParent' = shareLast'.arg
       /\ bootstraps >= 1 =>
            /\ shareParent' = shareParent
            /\ \A s \in ShareSources, p \in ShareAddresses :
                  ~bootstrap(ShareStorage, s, p).ok]_vars

\* bootstrap has succeeded once and another entry point was called after it
C17_Witness ==
    /\ bootstraps = 1
    /\ shareLast.op = "setBalance"
    /\ shareParent # Deployer
    /\ shareBalances # EmptyMap

\* the sum of all ShareToken balances
ShareBalanceSum(bals) ==
    SumOver([a \in DOMAIN bals |-> bals[a].balance], DOMAIN bals)

ShareCalled(op) == shareOps' = shareOps + 1 /\ shareLast'.op = op

\* C21: a successful ShareToken transfer(source, destination, n) sent by a
\* spender other than the source has n at most the spender's allowance from
\* the source and lowers that allowance, approvals[source][spender], by
\* exactly n; every successful transfer leaves the sum of all balances
\* unchanged
C21_SpenderAllowance ==
    [][ShareCalled("transfer") =>
        LET spender == shareLast'.source
            src     == shareLast'.arg[1]
            n       == shareLast'.arg[3]
        IN  /\ spender # src =>
                  /\ n <= getAllowance(ShareStorage, src, spender)
                  /\ getAllowance(ShareStorage', src, spender)
                        = getAllowance(ShareStorage, src, spender) - n
            /\ ShareBalanceSum(shareBalances') = ShareBalanceSum(shareBalances)]_vars

\* one share unit's worth of free collateral, rounded up
ShareUnit(free) == (free + 999999) \div 1000000

\* C22: a successful withdrawCollateral(amount) by a guarantor lowers the
\* redeemable value floor(freeCollateral * share / 1000000) of every other
\* guarantor by at most one share unit's worth of the free collateral, and
\* leaves the caller a redeemable value that, with the amount withdrawn,
\* exceeds its redeemable value before the call by at most that much
C22_WithdrawTakesOwnValue ==
    [][Called("withdrawCollateral") =>
        LET a      == last'.sender
            amount == last'.arg
        IN  /\ \A b \in DOMAIN collateral \ {a} :
                  RedeemableValue(freeCollateral', MapGet(collateral', b, 0))
                    >= RedeemableValue(freeCollateral, collateral[b])
                         - ShareUnit(freeCollateral)
            /\ RedeemableValue(freeCollateral', MapGet(collateral', a, 0)) + amount
                  <= RedeemableValue(freeCollateral, MapGet(collateral, a, 0))
                       + ShareUnit(freeCollateral)]_vars

\* the sum of the guarantors' redeemable values
TotalRedeemable(free, coll) ==
    SumOver([g \in DOMAIN coll |-> RedeemableValue(free, coll[g])], DOMAIN coll)

\* C23: in every reachable state the guarantors' shares add up to at most
\* 1,000,000 and their redeemable values floor(freeCollateral * share /
\* 1,000,000) add up to at most freeCollateral
C23_SharesBounded ==
    /\ TotalShares(collateral) <= 1000000
    /\ TotalRedeemable(freeCollateral, collateral) <= freeCollateral

\* two guarantors hold shares that rounding has brought below 1,000,000 in
\* total, after a withdrawal made while depositor funds are held
C23_Witness ==
    /\ last.op = "withdrawCollateral"
    /\ Len(guarantors) = 2
    /\ balances # EmptyMap
    /\ TotalShares(collateral) < 1000000
    /\ freeCollateral > 0

\* no address occurs twice in the list
NoDuplicates(gs) == Cardinality(Listed(gs)) = Len(gs)

\* C24: the guarantors list holds no address twice and holds exactly the
\* addresses that have an entry in the collateral map; a successful
\* withdrawCollateral(amount) removes its caller from both exactly when the
\* caller's part of the collateral balance less the amount is below 20 mutez,
\* and removes nobody else; no other call removes a guarantor
C24_GuarantorBookkeeping ==
    /\ [][IF Called("withdrawCollateral")
          THEN LET a         == last'.sender
                   remaining == split_tokens(balance, MapGet(collateral, a, 0),
                                             1000000) - last'.arg
               IN  /\ a \in DOMAIN collateral
                   /\ (a \notin DOMAIN collateral') <=> (remaining < 20)
                   /\ DOMAIN collateral' \cup {a} = DOMAIN collateral
          ELSE DOMAIN collateral \subseteq DOMAIN collateral']_vars
    /\ [](/\ NoDuplicates(guarantors)
          /\ Listed(guarantors) = DOMAIN collateral)

\* a withdrawal has removed its caller while another guarantor stays listed
C24_Witness ==
    /\ last.op = "withdrawCollateral"
    /\ last.sender \notin DOMAIN collateral
    /\ guarantors # <<>>

\* C25: in a period whose rate is 1 tez, and so at every time after
\* start + duration, every deposit is rejected because its claim does not
\* exceed its whole coins, and changes nothing; after start + duration no
\* step raises the total of the depositors' token balances
C25_NoIssuanceAtPar ==
    /\ [][now > start + duration =>
            TotalTokens(balances') <= TotalTokens(balances)]_vars
    /\ [](\A p \in {getPeriod(now)} :
            /\ now > start + duration =>
                  p.ok /\ p.y \in DOMAIN schedule /\ schedule[p.y] = TEZ
            /\ (p.ok /\ p.y \in DOMAIN schedule /\ schedule[p.y] = TEZ) =>
                  \A s \in Depositors, v \in ProbeDeposits :
                     \A r \in {deposit(Storage, now, s, v)} :
                        /\ ~r.ok /\ r.st = Storage /\ r.minted = 0
                        /\ v = 0 \/ v \div schedule[p.y] <= v \div TEZ)

\* after maturity, with tokens outstanding and free collateral at hand, a
\* deposit of 20 tez is rejected
C25_Witness ==
    /\ now > start + duration
    /\ TotalTokens(balances) > 0
    /\ freeCollateral >= TEZ
    /\ ~deposit(Storage, now, "david", 20000000).ok

====
